---------------------------- MODULE Spec2Model ----------------------------
(* A model of wio-rs.  This part covers the reference-counted COM pointer   *)
(* wrapper ComPtr and the com_ptr_from_fn! macro of src/src/com.rs.  The    *)
(* foreign COM object is a mock that counts AddRef/Release; the wrapper     *)
(* operations are translated from the source.                               *)
EXTENDS Integers, Naturals, Sequences, FiniteSets, TLC

(***************************************************************************)
(* Bounds of the model                                                     *)
(***************************************************************************)
\* number of ComPtr values alive at once
MaxWrappers == 3
\* raw pointers with an owed reference the caller may hold at once
MaxOwed == 1

(***************************************************************************)
(* Pointers, interfaces, statuses                                          *)
(***************************************************************************)
\* std::ptr::null_mut()
NULL == 0
\* the arm `0 => Ok(..)` of the macro: S_OK
S_OK == 0
\* HRESULT values the foreign side may return (i32; negative = failure)
Statuses == {-2, -1, 0, 1}

\* the mock COM objects, named by their (non-null) address
Objs == {1, 2}
Iids == {"IUnknown", "IB"}

\* the interfaces a mock object implements (QueryInterface succeeds for them)
Supports(o) == IF o = 1 THEN {"IUnknown"} ELSE {"IUnknown", "IB"}

\* T: Deref<Target = U>: the parent interface, used by ComPtr::up
Parent(i) == "IUnknown"

VARIABLES
    refcount,   \* mock: object -> current reference count
    underflow,  \* mock: a Release was served while the count was zero
    owed,       \* object -> references the caller holds as raw pointers
    live,       \* ComPtr value -> how many such wrappers are alive
    lastOp      \* the operation just performed, its result and the calls it issued

comVars == <<refcount, underflow, owed, live, lastOp>>

VARIABLES
    vbox,    \* the box: its size and data fields
    vpc,     \* "none": no box yet, "live", "dropped", "aborted" (handle_alloc_error)
    heap,    \* mock allocator: the live blocks and their bytes
    faults,  \* mock allocator: the contract violations it has seen
    vop      \* the operation just performed on the box

vsbVars == <<vbox, vpc, heap, faults, vop>>

VARIABLES
    acc,     \* the slice accessor just applied to the box, its inputs and result
    checks   \* whether the build has overflow checks (debug) or wraps (release)

sliceVars == <<acc, checks>>

VARIABLES
    kstate,  \* kernel: handle -> "unused", "open" or "closed"
    holder,  \* handle -> "none", "raw" (the caller holds the raw HANDLE) or "Handle"
    closes,  \* handle -> CloseHandle calls issued for it so far
    hop      \* the Handle operation just finished, its result and its CloseHandle calls

handleVars == <<kstate, holder, closes, hop>>

VARIABLES
    mutex,    \* the OS mutex: owning thread (0: none), recursion count, abandoned flag
    alive,    \* thread -> whether it still runs
    guards,   \* thread -> MutexGuard values it holds
    aguards,  \* thread -> AbandonedMutexGuard values (in Err(WaitError::Abandoned)) it holds
    mop       \* the Mutex operation just finished

mutexVars == <<mutex, alive, guards, aguards, mop>>

VARIABLES
    cl,       \* closure -> whether it was boxed, how often it ran, how often its box was freed
    apcq,     \* thread -> the APCs queued to it and not yet delivered (closures, in order)
    running,  \* thread -> whether it still runs
    aop       \* the apc operation just finished

apcVars == <<cl, apcq, running, aop>>

winVars == <<handleVars, mutexVars, apcVars>>

vars == <<comVars, vsbVars, sliceVars, winVars>>

\* the kernel handles the run may create
MaxHandles == 2

Handles == 1 .. MaxHandles

\* no kernel handle has been created
HandleIdle ==
    /\ kstate = [h \in Handles |-> "unused"]
    /\ holder = [h \in Handles |-> "none"]
    /\ closes = [h \in Handles |-> 0]
    /\ hop = [op |-> "none"]

\* the threads that share the mutex, and the guards one thread may hold at once
MaxThreads == 3
MaxHold == 2

Threads == 1 .. MaxThreads

\* Mutex::create: nobody owns the mutex
MutexIdle ==
    /\ mutex = [owner |-> 0, rec |-> 0, abandoned |-> FALSE]
    /\ alive = [t \in Threads |-> TRUE]
    /\ guards = [t \in Threads |-> 0]
    /\ aguards = [t \in Threads |-> 0]
    /\ mop = [op |-> "none"]

\* the closures the run may queue
MaxClosures == 2

Closures == 1 .. MaxClosures

\* nothing has been queued
ApcIdle ==
    /\ cl = [c \in Closures |-> [boxed |-> FALSE, runs |-> 0, frees |-> 0]]
    /\ apcq = [t \in Threads |-> <<>>]
    /\ running = [t \in Threads |-> TRUE]
    /\ aop = [op |-> "none"]

WinIdle == HandleIdle /\ MutexIdle /\ ApcIdle

\* the ComPtr operations leave the box, its allocator, the accessors and the
\* kernel objects alone
ComFrame == UNCHANGED <<vsbVars, sliceVars, winVars>>

\* the count of each mock object before the run takes any reference: nobody
\* else holds object 1, one outside party holds object 2
baseline == [o \in Objs |-> o - 1]

\* a ComPtr<T> value: the NonNull pointer and the interface T
Wrapper(p, i) == [ptr |-> p, iid |-> i]
Wrappers == {Wrapper(o, i) : o \in Objs, i \in Iids}
\* the wrappers the type system and the mock allow to exist
Kinds == {k \in Wrappers : k.iid \in Supports(k.ptr)}

Call(fn, p) == [fn |-> fn, ptr |-> p]
Op(op, res, status, arg, outs, ret, calls) ==
    [op |-> op, res |-> res, status |-> status, arg |-> arg,
     outs |-> outs, ret |-> ret, calls |-> calls]

\* refcount after the mock served the calls cs (AddRef +1, Release -1)
RECURSIVE RefAfter(_, _)
RefAfter(rc, cs) ==
    IF cs = <<>> THEN rc
    ELSE LET c == Head(cs)
             d == IF c.fn = "AddRef" THEN 1 ELSE IF c.fn = "Release" THEN -1 ELSE 0
         IN RefAfter([rc EXCEPT ![c.ptr] = @ + d], Tail(cs))

\* number of calls of fn on object o in cs
RECURSIVE CountCalls(_, _, _)
CountCalls(cs, fn, o) ==
    IF cs = <<>> THEN 0
    ELSE (IF Head(cs).fn = fn /\ Head(cs).ptr = o THEN 1 ELSE 0)
         + CountCalls(Tail(cs), fn, o)

RECURSIVE SumOver(_, _)
SumOver(f, S) == IF S = {} THEN 0
                 ELSE LET x == CHOOSE y \in S : TRUE IN f[x] + SumOver(f, S \ {x})
TotalOwed == SumOver(owed, Objs)
TotalLive == SumOver(live, Kinds)
\* live wrappers of object o
LiveOn(o) == SumOver(live, {k \in Kinds : k.ptr = o})

\* whether the mock serves a Release while its count is zero during cs
RECURSIVE Underflows(_, _)
Underflows(rc, cs) ==
    IF cs = <<>> THEN FALSE
    ELSE \/ Head(cs).fn = "Release" /\ rc[Head(cs).ptr] <= 0
         \/ Underflows(RefAfter(rc, <<Head(cs)>>), Tail(cs))

RECURSIVE Reverse(_)
Reverse(s) == IF s = <<>> THEN <<>> ELSE Append(Reverse(Tail(s)), Head(s))

RECURSIVE Flatten(_)
Flatten(ss) == IF ss = <<>> THEN <<>> ELSE Head(ss) \o Flatten(Tail(ss))

(***************************************************************************)
(* ComPtr (src/src/com.rs)                                                 *)
(***************************************************************************)
\* faulty variant of ComPtr::new: wraps the pointer without the null check
ComPtr_new_unchecked(ptr) == <<ptr>>

\* NonNull::new(ptr).map(ComPtr): an Option as a sequence of length 0 or 1
ComPtr_new(ptr) == IF ptr = NULL THEN <<>> ELSE <<ptr>>

\* faulty variant of expect: hands on the pointer, null or not
expect_unchecked(opt) == [res |-> "Ok", val |-> IF opt = <<>> THEN NULL ELSE opt[1]]

\* Option::expect: the value, or a panic
expect(opt) == IF opt = <<>> THEN [res |-> "panic", val |-> NULL]
               ELSE [res |-> "Ok", val |-> opt[1]]

\* faulty variant of from_raw: NonNull::new_unchecked
from_raw_unchecked(ptr) == [res |-> "Ok", val |-> ptr]

\* ComPtr(NonNull::new(ptr).expect("ptr should not be null"))
from_raw(ptr) == expect(IF ptr = NULL THEN <<>> ELSE <<ptr>>)

\* faulty variant of clone: copies the pointer without AddRef
clone_without_addref(ptr) == <<>>

\* impl Clone: self.as_unknown().AddRef(); ComPtr::from_raw(self.as_raw())
clone_calls(ptr) == <<Call("AddRef", ptr)>>

\* faulty variant of drop: releases twice
drop_calls_twice(ptr) == <<Call("Release", ptr), Call("Release", ptr)>>

\* impl Drop: self.as_unknown().Release()
drop_calls(ptr) == <<Call("Release", ptr)>>

\* faulty variant of into_raw: without forget(self) the wrapper is dropped
into_raw_without_forget(ptr) == <<Call("Release", ptr)>>

\* into_raw: let p = self.0.as_ptr(); forget(self); p
into_raw_calls(ptr) == <<>>

\* impl PartialEq: self.0 == other.0
eq(a, b) == a.ptr = b.ptr

\* cast: `if err < 0 { return Err(err); }`
cast_failed(err) == err < 0

\* faulty variant of cast: reports a generic failure (E_FAIL) instead of err
cast_err_generic(err) == -1

\* cast: the payload of Err
cast_err(err) == err

\* faulty variant of cast: an AddRef on top of QueryInterface's reference
cast_calls_addref(obj) == <<Call("AddRef", obj)>>

\* cast: what the wrapper calls on the object it got, besides QueryInterface
cast_calls(obj) == <<>>

(***************************************************************************)
(* com_ptr_from_fn! (src/src/com.rs)                                       *)
(***************************************************************************)
\* `let $ptr = ComPtr::new($ptr.0);` for every output pointer
macro_opts(outs) == [k \in 1..Len(outs) |-> ComPtr_new(outs[k])]

\* faulty variant of the match: any non-negative status taken as success
macro_is_ok_succeeded(result) == result >= 0

\* `match result { 0 => .., res => .. }`
macro_is_ok(result) == result = S_OK

\* `Err(res)`
macro_err(res) == res

\* faulty variant: the output pointers are forgotten, not dropped
macro_scope_leak(opts) == <<>>

\* faulty variant: only the last output pointer is dropped
macro_scope_drops_last(opts) == opts[Len(opts)]

\* the Option<ComPtr> values still owned inside the macro when it is left
\* without returning them (Err, or unwinding from expect): each Some is
\* dropped, locals in reverse order of declaration
macro_scope_drops(opts) ==
    Reverse(Flatten([k \in 1..Len(opts) |-> opts[k]]))

\* the whole macro after the initializer returned `result` with the output
\* pointers `outs`
com_ptr_from_fn(result, outs) ==
    LET opts == macro_opts(outs)
        got == [k \in 1..Len(opts) |-> expect(opts[k])]
        drops == macro_scope_drops(opts)
    IN IF macro_is_ok(result)
       THEN IF \E k \in 1..Len(opts) : got[k].res = "panic"
            THEN [res |-> "panic", err |-> 0, ptrs |-> <<>>,
                  calls |-> Flatten([k \in 1..Len(drops) |-> drop_calls(drops[k])])]
            ELSE [res |-> "Ok", err |-> 0,
                  ptrs |-> [k \in 1..Len(opts) |-> got[k].val], calls |-> <<>>]
       ELSE [res |-> "Err", err |-> macro_err(result), ptrs |-> <<>>,
             calls |-> Flatten([k \in 1..Len(drops) |-> drop_calls(drops[k])])]

(***************************************************************************)
(* State machine                                                           *)
(***************************************************************************)
ComInit ==
    /\ refcount = baseline
    /\ underflow = FALSE
    /\ owed = [o \in Objs |-> 0]
    /\ live = [k \in Kinds |-> 0]
    /\ lastOp = Op("init", "none", 0, NULL, <<>>, <<>>, <<>>)

Room(n) == TotalLive + n <= MaxWrappers

\* the mock serves the calls cs
Serve(cs) ==
    /\ refcount' = RefAfter(refcount, cs)
    /\ underflow' = (underflow \/ Underflows(refcount, cs))

RECURSIVE AddAll(_, _)
AddAll(lv, ws) == IF ws = <<>> THEN lv
                  ELSE AddAll([lv EXCEPT ![Head(ws)] = @ + 1], Tail(ws))

\* the foreign side hands the caller a raw interface pointer carrying one
\* reference (as CoCreateInstance does)
Acquire(o) ==
    /\ ComFrame
    /\ TotalOwed < MaxOwed
    /\ Serve(<<Call("AddRef", o)>>)
    /\ owed' = [owed EXCEPT ![o] = @ + 1]
    /\ lastOp' = Op("acquire", "none", 0, o, <<>>, <<>>, <<>>)
    /\ UNCHANGED live

\* a raw pointer the caller may pass to an adopting constructor as a *mut T
\* of interface i: null, or one whose reference the caller owes
Adoptable(p, i) ==
    IF p = NULL THEN TRUE
    ELSE owed[p] > 0 /\ i \in Supports(p) /\ Room(1)

\* ComPtr::new(ptr)
New(p, i) ==
    /\ ComFrame
    /\ Adoptable(p, i)
    /\ LET r == ComPtr_new(p) IN
       IF r = <<>>
       THEN /\ lastOp' = Op("new", "None", 0, p, <<>>, <<>>, <<>>)
            /\ UNCHANGED <<refcount, underflow, owed, live>>
       ELSE /\ live' = AddAll(live, <<Wrapper(r[1], i)>>)
            /\ owed' = [owed EXCEPT ![p] = @ - 1]
            /\ lastOp' = Op("new", "Some", 0, p, <<>>, <<Wrapper(r[1], i)>>, <<>>)
            /\ UNCHANGED <<refcount, underflow>>

\* ComPtr::from_raw(ptr)
FromRaw(p, i) ==
    /\ ComFrame
    /\ Adoptable(p, i)
    /\ LET r == from_raw(p) IN
       IF r.res = "panic"
       THEN /\ lastOp' = Op("from_raw", "panic", 0, p, <<>>, <<>>, <<>>)
            /\ UNCHANGED <<refcount, underflow, owed, live>>
       ELSE /\ live' = AddAll(live, <<Wrapper(r.val, i)>>)
            /\ owed' = [owed EXCEPT ![p] = @ - 1]
            /\ lastOp' = Op("from_raw", "Ok", 0, p, <<>>, <<Wrapper(r.val, i)>>, <<>>)
            /\ UNCHANGED <<refcount, underflow>>

\* <ComPtr<T> as Clone>::clone(&self)
Clone(w) ==
    /\ ComFrame
    /\ live[w] > 0
    /\ Room(1)
    /\ LET cs == clone_calls(w.ptr)
           r == from_raw(w.ptr)
       IN /\ Serve(cs)
          /\ live' = AddAll(live, <<Wrapper(r.val, w.iid)>>)
          /\ lastOp' = Op("clone", "Ok", 0, w, <<>>, <<Wrapper(r.val, w.iid)>>, cs)
    /\ UNCHANGED owed

\* <ComPtr<T> as Drop>::drop(&mut self): the wrapper goes out of scope
Drop(w) ==
    /\ ComFrame
    /\ live[w] > 0
    /\ LET cs == drop_calls(w.ptr)
       IN /\ Serve(cs)
          /\ live' = [live EXCEPT ![w] = @ - 1]
          /\ lastOp' = Op("drop", "none", 0, w, <<>>, <<>>, cs)
    /\ UNCHANGED owed

\* ComPtr::into_raw(self): the caller gets the pointer and owes its reference
IntoRaw(w) ==
    /\ ComFrame
    /\ live[w] > 0
    /\ TotalOwed < MaxOwed
    /\ LET cs == into_raw_calls(w.ptr)
       IN /\ Serve(cs)
          /\ live' = [live EXCEPT ![w] = @ - 1]
          /\ owed' = [owed EXCEPT ![w.ptr] = @ + 1]
          /\ lastOp' = Op("into_raw", "Ok", 0, w, <<w.ptr>>, <<>>, cs)

\* ComPtr::up(self): ComPtr::from_raw(self.into_raw() as *mut U)
Up(w) ==
    /\ ComFrame
    /\ live[w] > 0
    /\ w.iid # Parent(w.iid)
    /\ LET cs == into_raw_calls(w.ptr)
           r == from_raw(w.ptr)
           u == Wrapper(r.val, Parent(w.iid))
       IN /\ Serve(cs)
          /\ live' = AddAll([live EXCEPT ![w] = @ - 1], IF r.res = "Ok" THEN <<u>> ELSE <<>>)
          /\ lastOp' = Op("up", r.res, 0, w, <<>>, IF r.res = "Ok" THEN <<u>> ELSE <<>>, cs)
    /\ UNCHANGED owed

\* what the mock's QueryInterface may answer for interface u: a status and
\* the output pointer.  It hands out the object (with a reference of its
\* own making) only for an interface it supports and with a non-negative
\* status; on failure it leaves the output null, as COM requires.
QueryInterface(o, u) ==
    {[hr |-> h, obj |-> NULL] : h \in Statuses}
    \cup {[hr |-> h, obj |-> o] : h \in {x \in Statuses : x >= 0 /\ u \in Supports(o)}}

\* ComPtr::cast::<U>(&self)
Cast(w, u, qi) ==
    /\ ComFrame
    /\ live[w] > 0
    /\ LET mock == IF qi.obj = NULL THEN <<>> ELSE <<Call("AddRef", qi.obj)>>
           q == <<Call("QueryInterface", w.ptr)>>
       IN IF cast_failed(qi.hr)
          THEN /\ Serve(mock)
               /\ lastOp' = Op("cast", "Err", cast_err(qi.hr), w, <<u, qi.hr, qi.obj>>, <<>>, q)
               /\ UNCHANGED <<owed, live>>
          ELSE LET r == from_raw(qi.obj) IN
               IF r.res = "panic"
               THEN /\ Serve(mock)
                    /\ lastOp' = Op("cast", "panic", 0, w, <<u, qi.hr, qi.obj>>, <<>>, q)
                    /\ UNCHANGED <<owed, live>>
               ELSE /\ Room(1)
                    /\ Serve(mock \o cast_calls(r.val))
                    /\ live' = AddAll(live, <<Wrapper(r.val, u)>>)
                    /\ lastOp' = Op("cast", "Ok", 0, w, <<u, qi.hr, qi.obj>>,
                                    <<Wrapper(r.val, u)>>, q \o cast_calls(r.val))
                    /\ UNCHANGED owed

\* what an initializer may leave in an output pointer that asked for
\* interface i: null, or an object supporting i (with a reference of the
\* foreign side's making)
InitOuts(i) == {NULL} \cup {o \in Objs : i \in Supports(o)}

\* the mock's AddRef for every output pointer the initializer set
InitRefs(outs) ==
    Flatten([k \in 1..Len(outs) |-> IF outs[k] = NULL THEN <<>> ELSE <<Call("AddRef", outs[k])>>])

\* com_ptr_from_fn!(|(g1, p1), .., (gn, pn)| init): the initializer returns
\* hr having left outs in the output pointers; is are the interfaces asked for
MacroStep(name, hr, outs, is) ==
    /\ ComFrame
    /\ LET m == com_ptr_from_fn(hr, outs)
           n == Len(outs)
           ws == [k \in 1..Len(m.ptrs) |-> Wrapper(m.ptrs[k], is[k])]
       IN /\ m.res = "Ok" => Room(n)
          /\ Serve(InitRefs(outs) \o m.calls)
          /\ IF m.res = "Ok"
             THEN live' = AddAll(live, ws)
             ELSE UNCHANGED live
          /\ lastOp' = Op(name, m.res, m.err, hr, outs, ws, m.calls)
          /\ UNCHANGED owed

\* ComPtr::from_fn(fun): the macro with one pointer,
\* `Ok((p,)) => Ok(p), Err(e) => Err(e)`
FromFn(hr, i, o) ==
    MacroStep("from_fn", hr, <<o>>, <<i>>)

\* the macro with two pointers of different interfaces, as in
\* tests/com_ptr_from_fn.rs
FromFn2(hr, o1, o2) ==
    MacroStep("com_ptr_from_fn", hr, <<o1, o2>>, <<"IUnknown", "IB">>)

ComNext ==
    \/ \E o \in Objs : Acquire(o)
    \/ \E p \in Objs \cup {NULL}, i \in Iids : New(p, i)
    \/ \E p \in Objs \cup {NULL}, i \in Iids : FromRaw(p, i)
    \/ \E w \in Kinds : Clone(w)
    \/ \E w \in Kinds : Drop(w)
    \/ \E w \in Kinds : IntoRaw(w)
    \/ \E w \in Kinds : Up(w)
    \/ \E w \in Kinds, u \in Iids : \E qi \in QueryInterface(w.ptr, u) : Cast(w, u, qi)
    \/ \E h \in Statuses, i \in Iids : \E o \in InitOuts(i) : FromFn(h, i, o)
    \/ \E h \in Statuses : \E o1 \in InitOuts("IUnknown"), o2 \in InitOuts("IB") :
           FromFn2(h, o1, o2)

(***************************************************************************)
(* VariableSizedBox<T> (src/vsb.rs) over a mock global allocator           *)
(***************************************************************************)
\* width of usize in bits; pointers and sizes are UsizeBits wide
UsizeBits == 4
UsizeMax == 2^UsizeBits - 1
IsizeMax == 2^(UsizeBits - 1) - 1

\* largest ordinary byte size requested of a box
MaxLen == 3

\* size_of::<T>() and align_of::<T>() of the header type
SizeOfT == 2
AlignOfT == 2

Bytes == {0, 1}
\* the sizes a caller asks for: ordinary ones and one no Layout can describe
Sizes == (0 .. MaxLen) \cup {UsizeMax}

Min(a, b) == IF a <= b THEN a ELSE b
Zeros(n) == [i \in 1 .. n |-> 0]

\* NonNull::dangling(): the alignment of T taken as an address
Dangling == AlignOfT

\* impl Default: size 0, data dangling
vsb_default == [size |-> 0, data |-> Dangling]

\* Layout::from_size_align(size, align): an error when size, rounded up to
\* align, exceeds isize::MAX
from_size_align(size, align) ==
    IF size <= IsizeMax - (align - 1)
    THEN [ok |-> TRUE, size |-> size, align |-> align]
    ELSE [ok |-> FALSE, size |-> size, align |-> align]

\* faulty variant of as_ptr: the data pointer even for the empty box
as_ptr_unchecked(b) == b.data

\* as_ptr / as_mut_ptr: null for the empty box, else the data pointer
as_ptr(b) == IF b.size = 0 THEN NULL ELSE b.data

\* len: the size field
len(b) == b.size

\* --- the mock allocator: the heap is the set of live blocks ---
Block(base, size, align, bytes) ==
    [base |-> base, size |-> size, align |-> align, bytes |-> bytes]

BlockAt(h, ptr) == {b \in h : b.base = ptr}

\* the size of the live block at ptr as the allocator knows it, -1 if none
RealSize(h, ptr) ==
    IF BlockAt(h, ptr) = {} THEN -1 ELSE (CHOOSE b \in BlockAt(h, ptr) : TRUE).size

\* addresses at which the allocator may place a new block of this layout:
\* aligned, clear of the live blocks, and with the address one past the end
\* of the block still inside the address space
FreeAddrs(h, size, align) ==
    {a \in 1 .. UsizeMax :
        /\ a % align = 0
        /\ a + size <= UsizeMax
        /\ \A b \in h : a + size <= b.base \/ b.base + b.size <= a}

\* one allocator call as the mock records it: the layout the caller
\* described and the size the block at ptr really has
AllocCall(fn, ptr, layout, new_size, real) ==
    [fn |-> fn, ptr |-> ptr, size |-> layout.size, align |-> layout.align,
     new_size |-> new_size, real |-> real]

\* what the allocator contract forbids in a dealloc or realloc call
Misuse(h, ptr, layout) ==
    IF BlockAt(h, ptr) = {} THEN {"not a live block"}
    ELSE IF \E b \in BlockAt(h, ptr) : b.size # layout.size \/ b.align # layout.align
         THEN {"layout mismatch"}
         ELSE {}

\* faulty variant of alloc_zeroed: the block is left as the allocator found it
alloc_uninit(h, layout, a) ==
    IF a = NULL THEN h
    ELSE h \cup {Block(a, layout.size, layout.align, [i \in 1 .. layout.size |-> 1])}

\* alloc_zeroed(layout) answering a (NULL: out of memory)
alloc_zeroed(h, layout, a) ==
    IF a = NULL THEN h
    ELSE h \cup {Block(a, layout.size, layout.align, Zeros(layout.size))}

\* dealloc(ptr, layout)
dealloc(h, ptr, layout) == h \ BlockAt(h, ptr)

\* realloc(ptr, layout, new_size) answering a (NULL: out of memory, the old
\* block stays): the new block keeps the first min(layout.size, new_size)
\* bytes, as the allocator only knows the old size the caller described; the
\* others are whatever is there (fill)
realloc(h, ptr, layout, new_size, a, fill) ==
    IF a = NULL \/ BlockAt(h, ptr) = {} THEN h
    ELSE LET old == CHOOSE b \in BlockAt(h, ptr) : TRUE
             kept == Min(Min(layout.size, new_size), old.size)
         IN (h \ {old}) \cup
            {Block(a, new_size, layout.align,
                   [i \in 1 .. new_size |-> IF i <= kept THEN old.bytes[i] ELSE fill])}

\* --- the box's code, as functions of the heap and the allocator's answer ---
Outcome(res, box, h, cs, fs) ==
    [res |-> res, box |-> box, heap |-> h, calls |-> cs, faults |-> fs]

\* new(size)
vsb_new(h, size, a) ==
    IF size = 0 THEN Outcome("Ok", vsb_default, h, <<>>, {})
    ELSE LET layout == from_size_align(size, AlignOfT)
         IN IF ~layout.ok THEN Outcome("panic", vsb_default, h, <<>>, {})
            ELSE LET call == AllocCall("alloc_zeroed", NULL, layout, size, -1)
                 IN IF a = NULL
                    THEN Outcome("abort", vsb_default, h, <<call>>, {})
                    ELSE Outcome("Ok", [size |-> size, data |-> a],
                                 alloc_zeroed(h, layout, a), <<call>>, {})

\* impl Drop: nothing for size 0, else dealloc(as_mut_ptr, Layout(size, align_of T))
vsb_drop(h, b) ==
    IF b.size = 0 THEN Outcome("Ok", b, h, <<>>, {})
    ELSE LET layout == from_size_align(b.size, AlignOfT)
             ptr == as_ptr(b)
         IN Outcome("Ok", b, dealloc(h, ptr, layout),
                    <<AllocCall("dealloc", ptr, layout, 0, RealSize(h, ptr))>>,
                    Misuse(h, ptr, layout))

\* ptr::copy_to(dst, count) between two blocks of the heap, byte by byte
copy_to(h, src, dst, count) ==
    IF BlockAt(h, src) = {} \/ BlockAt(h, dst) = {} THEN h
    ELSE LET s == CHOOSE b \in BlockAt(h, src) : TRUE
             d == CHOOSE b \in BlockAt(h, dst) : TRUE
         IN (h \ {d}) \cup
            {[d EXCEPT !.bytes = [i \in 1 .. d.size |->
                                     IF i <= count /\ i <= s.size THEN s.bytes[i] ELSE @[i]]]}

\* faulty variant of the growth copy: nothing is copied
resize_copy_none(old, size) == 0

\* resize, growth: the number of bytes copied, self.size.min(size)
resize_copy_len(old, size) == Min(old, size)

\* resize, shrink: the size of the layout handed to realloc, which is the
\* size asked for
realloc_layout_size(b, size) == size

\* *self = new: the old value is dropped, the new one takes its place
assign(n, b, pre) ==
    LET d == vsb_drop(n.heap, b)
    IN Outcome("Ok", n.box, d.heap, n.calls \o d.calls, pre \cup d.faults)

\* resize(size)
vsb_resize(h, b, size, a, fill) ==
    IF size = 0 \/ b.size = 0
    THEN LET n == vsb_new(h, size, a)
         IN IF n.res # "Ok" THEN Outcome(n.res, b, h, n.calls, {})
            ELSE assign(n, b, {})
    ELSE IF size > b.size
    THEN LET n == vsb_new(h, size, a)
         IN IF n.res # "Ok" THEN Outcome(n.res, b, h, n.calls, {})
            ELSE LET count == resize_copy_len(b.size, size)
                     copied == [n EXCEPT !.heap = copy_to(n.heap, b.data, n.box.data, count)]
                 IN assign(copied, b,
                           IF BlockAt(n.heap, b.data) = {} THEN {"not a live block"} ELSE {})
    ELSE IF size < b.size
    THEN LET layout == from_size_align(realloc_layout_size(b, size), AlignOfT)
             ptr == as_ptr(b)
             call == AllocCall("realloc", ptr, layout, size, RealSize(h, ptr))
         IN IF ~layout.ok THEN Outcome("panic", b, h, <<>>, {})
            ELSE IF a = NULL
            THEN Outcome("abort", b, h, <<call>>, Misuse(h, ptr, layout))
            ELSE Outcome("Ok", [size |-> size, data |-> a],
                         realloc(h, ptr, layout, size, a, fill), <<call>>,
                         Misuse(h, ptr, layout))
    ELSE Outcome("Ok", b, h, <<>>, {})

\* the bytes realloc may leave beyond those it keeps; only the shrinking
\* path calls realloc
Fills(b, size) == IF 0 < size /\ size < b.size THEN Bytes ELSE {0}

\* the lowest and the highest address the allocator can answer with
Extremes(s) == {a \in s : (\A x \in s : a <= x) \/ (\A x \in s : a >= x)}

\* the answers the allocator can give to the one request new or resize makes:
\* out of memory, the block in place (realloc), or a free address, of which
\* the lowest and the highest stand for all
AllocAnswers(h, b, size) ==
    IF size = 0 \/ b.size = 0 \/ size > b.size
    THEN {NULL} \cup Extremes(FreeAddrs(h, size, AlignOfT))
    ELSE {NULL, b.data} \cup Extremes(FreeAddrs(h, size, AlignOfT))

VOp(op, arg, res, old, oldBytes, calls) ==
    [op |-> op, arg |-> arg, res |-> res, old |-> old, oldBytes |-> oldBytes,
     calls |-> calls]

\* the bytes of the box's allocation, empty for the empty box
Contents(h, b) ==
    IF b.size = 0 \/ BlockAt(h, b.data) = {} THEN <<>>
    ELSE (CHOOSE blk \in BlockAt(h, b.data) : TRUE).bytes

VsbIdle ==
    /\ vbox = vsb_default
    /\ vpc = "none"
    /\ heap = {}
    /\ faults = {}
    /\ vop = VOp("none", 0, "Ok", vsb_default, <<>>, <<>>)

VsbInit == VsbIdle

\* no accessor has been applied
SliceIdle ==
    /\ acc = [op |-> "none"]
    /\ checks = FALSE

\* the box operations leave the COM mock and the accessors alone
VsbFrame == UNCHANGED <<comVars, sliceVars, winVars>>

Finish(op, arg, r, stays) ==
    /\ VsbFrame
    /\ heap' = r.heap
    /\ faults' = faults \cup r.faults
    /\ vop' = VOp(op, arg, r.res, vbox, Contents(heap, vbox), r.calls)
    /\ vbox' = r.box
    /\ vpc' = IF r.res = "abort" THEN "aborted" ELSE IF r.res = "Ok" THEN "live" ELSE stays

\* let b = VariableSizedBox::<T>::new(size)
VNew(size, a) ==
    /\ vpc \in {"none", "dropped"}
    /\ a \in AllocAnswers(heap, vsb_default, size)
    /\ Finish("new", size, vsb_new(heap, size, a), vpc)

\* b.resize(size)
VResize(size, a, fill) ==
    /\ vpc = "live"
    /\ a \in AllocAnswers(heap, vbox, size)
    /\ fill \in Fills(vbox, size)
    /\ Finish("resize", size, vsb_resize(heap, vbox, size, a, fill), vpc)

\* the box goes out of scope
VDrop ==
    /\ VsbFrame
    /\ vpc = "live"
    /\ LET r == vsb_drop(heap, vbox)
       IN /\ heap' = r.heap
          /\ faults' = faults \cup r.faults
          /\ vop' = VOp("drop", 0, "Ok", vbox, Contents(heap, vbox), r.calls)
    /\ vbox' = vsb_default
    /\ vpc' = "dropped"

\* the caller stores a byte through as_mut_ptr()
VWrite(i, v) ==
    /\ VsbFrame
    /\ vpc = "live"
    /\ i \in 1 .. len(vbox)
    /\ heap' = {IF b.base = as_ptr(vbox) THEN [b EXCEPT !.bytes[i] = v] ELSE b : b \in heap}
    /\ vop' = VOp("write", i, "Ok", vbox, Contents(heap, vbox), <<>>)
    /\ UNCHANGED <<vbox, vpc, faults>>


(***************************************************************************)
(* The slice accessors of VariableSizedBox (src/vsb.rs)                    *)
(***************************************************************************)
\* size_of::<U>() of the element types the accessors are used with
ElemSizes == {1, 2}

\* a slice as the caller sees it: Some(&[U]) of count elements of sz bytes at
\* address start, None, or a panic; ub: the slice was built from a null pointer
SliceRes(res, start, count, sz, ub) ==
    [res |-> res, start |-> start, count |-> count, sz |-> sz, ub |-> ub]

NoSlice(res) == SliceRes(res, 0, 0, 0, FALSE)

\* a - b on usize: wraps in a build without overflow checks, panics with them
usize_sub(a, b, chk) ==
    IF a >= b THEN [ok |-> TRUE, val |-> a - b]
    ELSE IF chk THEN [ok |-> FALSE, val |-> 0]
    ELSE [ok |-> TRUE, val |-> a - b + 2^UsizeBits]

\* usize::checked_mul: None (-1) on overflow
checked_mul(a, b) == IF a * b > UsizeMax THEN -1 ELSE a * b

\* faulty variant of wrapping_add: the pointer is not advanced
wrapping_add_none(ptr, count, sz) == ptr

\* <*const U>::wrapping_add(count): count elements further, modulo the
\* address space
wrapping_add(ptr, count, sz) == (ptr + count * sz) % 2^UsizeBits

\* sanitize_ptr: the base pointer advanced by the byte offset of ptr
sanitize_ptr(b, ptr, chk) ==
    LET offset == usize_sub(ptr, as_ptr(b), chk)
    IN [ok |-> offset.ok, val |-> (as_ptr(b) + offset.val) % 2^UsizeBits]

\* a sanitize_mut_ptr that forgets the offset and answers the base pointer
sanitize_mut_ptr_base(b, ptr, chk) == [ok |-> TRUE, val |-> as_ptr(b)]

\* sanitize_mut_ptr: the same through as_mut_ptr
sanitize_mut_ptr(b, ptr, chk) ==
    LET offset == usize_sub(ptr, as_ptr(b), chk)
    IN [ok |-> offset.ok, val |-> (as_ptr(b) + offset.val) % 2^UsizeBits]

\* slice::from_raw_parts(data, count): undefined for a null data pointer; the
\* builds turn Some of a null slice into None (the niche of Option<&[U]>) or
\* stop at the precondition check of a debug build
from_raw_parts(data, count, sz) ==
    IF data = NULL
    THEN {SliceRes("None", NULL, count, sz, TRUE), SliceRes("panic", NULL, count, sz, TRUE)}
    ELSE {SliceRes("Some", data, count, sz, FALSE)}

\* slice::from_raw_parts_mut(data, count)
from_raw_parts_mut(data, count, sz) ==
    IF data = NULL
    THEN {SliceRes("None", NULL, count, sz, TRUE), SliceRes("panic", NULL, count, sz, TRUE)}
    ELSE {SliceRes("Some", data, count, sz, FALSE)}

\* Option::unwrap on the result of a try_ form
unwrap(rs) == {IF r.res = "None" THEN [r EXCEPT !.res = "panic"] ELSE r : r \in rs}

\* try_slice_from_count::<U>(ptr, count), sz = size_of::<U>()
try_slice_from_count(b, ptr, count, sz, chk) ==
    IF ptr >= as_ptr(b)
    THEN LET m == checked_mul(count, sz)
         IN IF m = -1 THEN {NoSlice("panic")}
            ELSE IF /\ m <= b.size
                    /\ wrapping_add(ptr, count, sz) >= ptr
                    /\ wrapping_add(ptr, count, sz) <= as_ptr(b) + b.size
            THEN LET s == sanitize_ptr(b, ptr, chk)
                 IN IF ~s.ok THEN {NoSlice("panic")}
                    ELSE from_raw_parts(s.val, count, sz)
            ELSE {NoSlice("None")}
    ELSE {NoSlice("None")}

\* slice_from_count
slice_from_count(b, ptr, count, sz, chk) ==
    unwrap(try_slice_from_count(b, ptr, count, sz, chk))

\* try_slice_from_count_mut
try_slice_from_count_mut(b, ptr, count, sz, chk) ==
    IF ptr >= as_ptr(b)
    THEN LET m == checked_mul(count, sz)
         IN IF m = -1 THEN {NoSlice("panic")}
            ELSE IF /\ m <= b.size
                    /\ wrapping_add(ptr, count, sz) >= ptr
                    /\ wrapping_add(ptr, count, sz) <= as_ptr(b) + b.size
            THEN LET s == sanitize_mut_ptr(b, ptr, chk)
                 IN IF ~s.ok THEN {NoSlice("panic")}
                    ELSE from_raw_parts_mut(s.val, count, sz)
            ELSE {NoSlice("None")}
    ELSE {NoSlice("None")}

\* slice_from_count_mut
slice_from_count_mut(b, ptr, count, sz, chk) ==
    unwrap(try_slice_from_count_mut(b, ptr, count, sz, chk))

\* try_slice_from_bytes: count = bytes / size_of::<U>()
try_slice_from_bytes(b, ptr, bytes, sz, chk) ==
    try_slice_from_count(b, ptr, bytes \div sz, sz, chk)

\* slice_from_bytes
slice_from_bytes(b, ptr, bytes, sz, chk) ==
    slice_from_count(b, ptr, bytes \div sz, sz, chk)

\* try_slice_from_bytes_mut
try_slice_from_bytes_mut(b, ptr, bytes, sz, chk) ==
    try_slice_from_count_mut(b, ptr, bytes \div sz, sz, chk)

\* slice_from_bytes_mut
slice_from_bytes_mut(b, ptr, bytes, sz, chk) ==
    slice_from_count_mut(b, ptr, bytes \div sz, sz, chk)

\* faulty variant of the byte count of the total-bytes forms: the offset of
\* the pointer is not taken off
total_as_bytes(b, ptr, total_bytes, chk) == [ok |-> TRUE, val |-> total_bytes]

\* let bytes = total_bytes - (ptr as usize - self.as_ptr() as usize)
total_to_bytes(b, ptr, total_bytes, chk) ==
    LET off == usize_sub(ptr, as_ptr(b), chk)
    IN IF ~off.ok THEN off ELSE usize_sub(total_bytes, off.val, chk)

\* try_slice_from_total_bytes
try_slice_from_total_bytes(b, ptr, total_bytes, sz, chk) ==
    LET bytes == total_to_bytes(b, ptr, total_bytes, chk)
    IN IF ~bytes.ok THEN {NoSlice("panic")}
       ELSE try_slice_from_bytes(b, ptr, bytes.val, sz, chk)

\* slice_from_total_bytes
slice_from_total_bytes(b, ptr, total_bytes, sz, chk) ==
    LET bytes == total_to_bytes(b, ptr, total_bytes, chk)
    IN IF ~bytes.ok THEN {NoSlice("panic")}
       ELSE slice_from_bytes(b, ptr, bytes.val, sz, chk)

\* try_slice_from_total_bytes_mut
try_slice_from_total_bytes_mut(b, ptr, total_bytes, sz, chk) ==
    LET bytes == total_to_bytes(b, ptr, total_bytes, chk)
    IN IF ~bytes.ok THEN {NoSlice("panic")}
       ELSE try_slice_from_bytes_mut(b, ptr, bytes.val, sz, chk)

\* slice_from_total_bytes_mut
slice_from_total_bytes_mut(b, ptr, total_bytes, sz, chk) ==
    LET bytes == total_to_bytes(b, ptr, total_bytes, chk)
    IN IF ~bytes.ok THEN {NoSlice("panic")}
       ELSE slice_from_bytes_mut(b, ptr, bytes.val, sz, chk)

CountForms ==
    {"try_slice_from_count", "slice_from_count",
     "try_slice_from_count_mut", "slice_from_count_mut"}

BytesForms ==
    {"try_slice_from_bytes", "slice_from_bytes",
     "try_slice_from_bytes_mut", "slice_from_bytes_mut"}

TotalBytesForms ==
    {"try_slice_from_total_bytes", "slice_from_total_bytes",
     "try_slice_from_total_bytes_mut", "slice_from_total_bytes_mut"}

\* the accessor of that name applied to the box
Accessor(f, b, ptr, n, sz, chk) ==
    CASE f = "try_slice_from_count" -> try_slice_from_count(b, ptr, n, sz, chk)
      [] f = "slice_from_count" -> slice_from_count(b, ptr, n, sz, chk)
      [] f = "try_slice_from_count_mut" -> try_slice_from_count_mut(b, ptr, n, sz, chk)
      [] f = "slice_from_count_mut" -> slice_from_count_mut(b, ptr, n, sz, chk)
      [] f = "try_slice_from_bytes" -> try_slice_from_bytes(b, ptr, n, sz, chk)
      [] f = "slice_from_bytes" -> slice_from_bytes(b, ptr, n, sz, chk)
      [] f = "try_slice_from_bytes_mut" -> try_slice_from_bytes_mut(b, ptr, n, sz, chk)
      [] f = "slice_from_bytes_mut" -> slice_from_bytes_mut(b, ptr, n, sz, chk)
      [] f = "try_slice_from_total_bytes" -> try_slice_from_total_bytes(b, ptr, n, sz, chk)
      [] f = "slice_from_total_bytes" -> slice_from_total_bytes(b, ptr, n, sz, chk)
      [] f = "try_slice_from_total_bytes_mut" ->
            try_slice_from_total_bytes_mut(b, ptr, n, sz, chk)
      [] f = "slice_from_total_bytes_mut" -> slice_from_total_bytes_mut(b, ptr, n, sz, chk)

Acc(f, ptr, n, sz, r) == [op |-> f, ptr |-> ptr, n |-> n, sz |-> sz, r |-> r]

(***************************************************************************)
(* Header references and slice views of a live box                         *)
(***************************************************************************)
\* the values of the header type T, as its size_of::<T>() bytes
HeaderVals == [1 .. SizeOfT -> Bytes]

\* a read or write of n bytes at address addr, as the mock memory sees it
Deref(h, addr, n) ==
    AllocCall("deref", addr, [size |-> n, align |-> AlignOfT], 0, RealSize(h, addr))

\* faulty variant of as_ref / as_mut_ref: no assertion on the size
as_ref_unchecked(b) == [res |-> "Ok", addr |-> b.data]

\* as_ref: assert!(self.size >= size_of::<T>()); self.data.as_ref()
as_ref(b) ==
    IF ~(b.size >= SizeOfT) THEN [res |-> "panic", addr |-> NULL]
    ELSE [res |-> "Ok", addr |-> b.data]

\* as_mut_ref: assert!(self.size >= size_of::<T>()); self.data.as_mut()
as_mut_ref(b) ==
    IF ~(b.size >= SizeOfT) THEN [res |-> "panic", addr |-> NULL]
    ELSE [res |-> "Ok", addr |-> b.data]

\* the bytes memory holds at addr .. addr + n - 1; a byte outside every live
\* block reads as whatever is there (1)
ReadBytes(h, addr, n) ==
    [i \in 1 .. n |->
        LET at == {b \in h : b.base <= addr + i - 1 /\ addr + i - 1 < b.base + b.size}
        IN IF at = {} THEN 1
           ELSE LET b == CHOOSE x \in at : TRUE IN b.bytes[addr + i - b.base]]

\* memory after bs is stored at addr; stores outside every live block are lost
WriteBytes(h, addr, bs) ==
    {[b EXCEPT !.bytes = [k \in 1 .. b.size |->
                            IF b.base + k - 1 >= addr /\ b.base + k - 1 < addr + Len(bs)
                            THEN bs[b.base + k - addr] ELSE @[k]]] : b \in h}

\* the header as as_ref() shows it
HeaderRead(h, b) == ReadBytes(h, as_ref(b).addr, SizeOfT)

\* an element of sz bytes as its bytes, least significant first, and back
to_bytes(v, sz) == [j \in 1 .. sz |-> (v \div (2 ^ (j - 1))) % 2]

RECURSIVE from_bytes(_)
from_bytes(bs) ==
    IF bs = <<>> THEN 0 ELSE bs[1] + 2 * from_bytes(SubSeq(bs, 2, Len(bs)))

ElemVals(sz) == 0 .. (2 ^ sz - 1)

\* the elements a slice shows
View(h, s) ==
    [k \in 1 .. s.count |->
        from_bytes(ReadBytes(h, s.start + (k - 1) * s.sz, s.sz))]

RECURSIVE StoreElems(_, _, _, _)
\* the elements vals stored one after the other from addr on
StoreElems(h, addr, sz, vals) ==
    IF vals = <<>> THEN h
    ELSE StoreElems(WriteBytes(h, addr, to_bytes(vals[1], sz)), addr + sz, sz,
                    SubSeq(vals, 2, Len(vals)))

\* pointers a caller derives from the box: from just below the base to just
\* past the end of the allocation
NearPtrs(b) ==
    {p \in 0 .. UsizeMax : p + 1 >= as_ptr(b) /\ p <= as_ptr(b) + len(b) + 1}

\* let h = b.as_ref(); the header is read
VAsRef ==
    /\ VsbFrame
    /\ vpc = "live"
    /\ LET r == as_ref(vbox)
       IN vop' = VOp("as_ref",
                     IF r.res = "Ok" THEN ReadBytes(heap, r.addr, SizeOfT) ELSE <<>>,
                     r.res, vbox, Contents(heap, vbox),
                     IF r.res = "Ok" THEN <<Deref(heap, r.addr, SizeOfT)>> ELSE <<>>)
    /\ UNCHANGED <<vbox, vpc, heap, faults>>

\* *b.as_mut_ref() = v
VAsMutRef(v) ==
    /\ VsbFrame
    /\ vpc = "live"
    /\ LET r == as_mut_ref(vbox)
       IN /\ vop' = VOp("as_mut_ref", v, r.res, vbox, Contents(heap, vbox),
                        IF r.res = "Ok" THEN <<Deref(heap, r.addr, SizeOfT)>> ELSE <<>>)
          /\ heap' = IF r.res = "Ok" THEN WriteBytes(heap, r.addr, v) ELSE heap
    /\ UNCHANGED <<vbox, vpc, faults>>

\* b.slice_from_count_mut(ptr, count).copy_from_slice(vals), for some vals
VSliceWrite(ptr, count, sz) ==
    /\ VsbFrame
    /\ vpc = "live"
    /\ \E s \in slice_from_count_mut(vbox, ptr, count, sz, checks) :
         \E vals \in IF s.res = "Some" THEN [1 .. s.count -> ElemVals(sz)] ELSE {<<>>} :
            /\ vop' = VOp("slice_write",
                          [ptr |-> ptr, count |-> count, sz |-> sz, vals |-> vals],
                          s.res, vbox, Contents(heap, vbox), <<>>)
            /\ heap' = IF s.res = "Some" THEN StoreElems(heap, s.start, sz, vals) ELSE heap
    /\ UNCHANGED <<vbox, vpc, faults>>

VsbNext ==
    \/ \E size \in Sizes : \E a \in 0 .. UsizeMax : VNew(size, a)
    \/ \E size \in Sizes : \E a \in 0 .. UsizeMax, fill \in Bytes : VResize(size, a, fill)
    \/ VDrop
    \/ \E i \in 1 .. MaxLen, v \in Bytes : VWrite(i, v)
    \/ VAsRef
    \/ \E v \in HeaderVals : VAsMutRef(v)

VsbStart == ComInit /\ VsbInit /\ SliceIdle /\ WinIdle

VsbSpec == VsbStart /\ [][VsbNext]_vars

\* a call of slice_from_count and the elements the returned slice shows
Viewed(ptr, n, sz, r, view) ==
    [op |-> "slice_from_count", ptr |-> ptr, n |-> n, sz |-> sz, r |-> r, view |-> view]

\* let s = b.slice_from_count(ptr, count); the elements of s are read
VSliceRead(ptr, count, sz) ==
    /\ vpc = "live"
    /\ acc.op = "none"
    /\ \E s \in slice_from_count(vbox, ptr, count, sz, checks) :
          acc' = Viewed(ptr, count, sz, s, IF s.res = "Some" THEN View(heap, s) ELSE <<>>)
    /\ UNCHANGED <<comVars, vsbVars, checks, winVars>>

\* a box just made by new(size), low or high in the address space
ViewStart ==
    /\ ComInit
    /\ WinIdle
    /\ \E size \in 0 .. MaxLen :
         \E a \in IF size = 0 THEN {NULL} ELSE Extremes(FreeAddrs({}, size, AlignOfT)) :
            LET r == vsb_new({}, size, a)
            IN /\ vbox = r.box
               /\ heap = r.heap
               /\ vop = VOp("new", size, r.res, vsb_default, <<>>, r.calls)
    /\ vpc = "live"
    /\ faults = {}
    /\ SliceIdle

\* nothing has been written through a slice yet, and no slice has been read
Unwritten == vop.op \in {"new", "write"} /\ acc.op = "none"

\* the box is filled byte by byte, written through one mutable slice, and
\* read through the shared slice of the same pointer and count; a box not
\* written through a slice is read through any shared slice
ViewNext ==
    \/ Unwritten /\ \E i \in 1 .. MaxLen, v \in Bytes : VWrite(i, v)
    \/ Unwritten /\ \E ptr \in NearPtrs(vbox), count \in 0 .. MaxLen, sz \in ElemSizes :
                       VSliceWrite(ptr, count, sz)
    \/ Unwritten /\ \E ptr \in NearPtrs(vbox), count \in 0 .. MaxLen, sz \in ElemSizes :
                       VSliceRead(ptr, count, sz)
    \/ vop.op = "slice_write" /\ VSliceRead(vop.arg.ptr, vop.arg.count, vop.arg.sz)

ViewSpec == ViewStart /\ [][ViewNext]_vars

\* a box just made by new(size), low or high in the address space, in a
\* build with or without overflow checks
SliceStart ==
    /\ ComInit
    /\ WinIdle
    /\ \E size \in 0 .. MaxLen :
         \E a \in IF size = 0 THEN {NULL} ELSE Extremes(FreeAddrs({}, size, AlignOfT)) :
            LET r == vsb_new({}, size, a)
            IN /\ vbox = r.box
               /\ heap = r.heap
               /\ vop = VOp("new", size, r.res, vsb_default, <<>>, r.calls)
    /\ vpc = "live"
    /\ faults = {}
    /\ acc = [op |-> "none"]
    /\ checks \in BOOLEAN

\* no accessor has been applied yet
Idle == acc.op = "none"

\* one accessor is applied to the box
Access(f, ptr, n, sz) ==
    /\ Idle
    /\ \E r \in Accessor(f, vbox, ptr, n, sz, checks) : acc' = Acc(f, ptr, n, sz, r)
    /\ UNCHANGED <<comVars, vsbVars, checks, winVars>>

\* box.slice_from_count(ptr, count) and its try_ and _mut forms
SliceFromCount(f, ptr, count, sz) ==
    /\ f \in CountForms
    /\ Access(f, ptr, count, sz)

\* box.slice_from_bytes(ptr, bytes) and its try_ and _mut forms
SliceFromBytes(f, ptr, bytes, sz) ==
    /\ f \in BytesForms
    /\ Access(f, ptr, bytes, sz)

\* box.slice_from_total_bytes(ptr, total_bytes) and its try_ and _mut forms
SliceFromTotalBytes(f, ptr, total_bytes, sz) ==
    /\ f \in TotalBytesForms
    /\ Access(f, ptr, total_bytes, sz)

SliceNext ==
    \/ Idle /\ \E f \in CountForms, ptr \in 0 .. UsizeMax, n \in 0 .. UsizeMax,
                    sz \in ElemSizes : SliceFromCount(f, ptr, n, sz)
    \/ Idle /\ \E f \in BytesForms, ptr \in 0 .. UsizeMax, n \in 0 .. UsizeMax,
                    sz \in ElemSizes : SliceFromBytes(f, ptr, n, sz)
    \/ Idle /\ \E f \in TotalBytesForms, ptr \in 0 .. UsizeMax, n \in 0 .. UsizeMax,
                    sz \in ElemSizes : SliceFromTotalBytes(f, ptr, n, sz)

SliceSpec == SliceStart /\ [][SliceNext]_vars

ComStart == ComInit /\ VsbIdle /\ SliceIdle /\ WinIdle

ComSpec == ComStart /\ [][ComNext]_vars

\* ------------------------------------------------------------------------
\* Handle (src/handle.rs): an owned kernel HANDLE
\* ------------------------------------------------------------------------

\* kernel32 CloseHandle(h): closes an open handle and answers non-zero;
\* answers 0 (ERROR_INVALID_HANDLE) for a handle that is not open
CloseHandle(k, h) ==
    [ret |-> IF k[h] = "open" THEN 1 ELSE 0,
     k   |-> IF k[h] = "open" THEN [k EXCEPT ![h] = "closed"] ELSE k]

HandleOutcome(res, raw, k, calls) == [res |-> res, raw |-> raw, k |-> k, calls |-> calls]

\* impl Drop for Handle: let err = CloseHandle(self.0); assert!(err != 0)
handle_drop(k, h) ==
    LET c == CloseHandle(k, h)
    IN HandleOutcome(IF c.ret # 0 THEN "Ok" ELSE "panic", h, c.k, 1)

\* impl IntoRawHandle: fn into_raw_handle(self) -> HANDLE { self.0 }: the
\* field is copied out and self, not forgotten, is dropped as the function
\* returns
into_raw_handle(k, h) ==
    LET raw == h
        d == handle_drop(k, h)
    IN HandleOutcome(d.res, raw, d.k, d.calls)

\* Handle::close: match CloseHandle(self.into_raw_handle()) { 0 =>
\* last_error(), _ => Ok(()) }; the argument is evaluated first
handle_close(k, h) ==
    LET r == into_raw_handle(k, h)
    IN IF r.res = "panic" THEN r
       ELSE LET c == CloseHandle(r.k, r.raw)
            IN HandleOutcome(IF c.ret = 0 THEN "Err" ELSE "Ok", r.raw, c.k, r.calls + 1)

HOp(op, h, r) == [op |-> op, h |-> h, res |-> r.res, calls |-> r.calls]

\* the other parts of the program stand still
HandleFrame == UNCHANGED <<comVars, vsbVars, sliceVars, mutexVars, apcVars>>

\* the kernel hands out a new open handle (CreateFile, CreateMutex, ...)
CreateHandle(h) ==
    /\ HandleFrame
    /\ kstate[h] = "unused"
    /\ kstate' = [kstate EXCEPT ![h] = "open"]
    /\ holder' = [holder EXCEPT ![h] = "raw"]
    /\ hop' = [op |-> "create", h |-> h, res |-> "Ok", calls |-> 0]
    /\ UNCHANGED closes

\* Handle::new(handle) / from_raw_handle(handle): wraps the raw handle the
\* caller holds
HandleNew(h) ==
    /\ HandleFrame
    /\ holder[h] = "raw"
    /\ holder' = [holder EXCEPT ![h] = "Handle"]
    /\ hop' = [op |-> "new", h |-> h, res |-> "Ok", calls |-> 0]
    /\ UNCHANGED <<kstate, closes>>

\* handle.close()
HandleClose(h) ==
    /\ HandleFrame
    /\ holder[h] = "Handle"
    /\ LET r == handle_close(kstate, h)
       IN /\ kstate' = r.k
          /\ closes' = [closes EXCEPT ![h] = @ + r.calls]
          /\ hop' = HOp("close", h, r)
    /\ holder' = [holder EXCEPT ![h] = "none"]

\* the Handle goes out of scope
HandleDrop(h) ==
    /\ HandleFrame
    /\ holder[h] = "Handle"
    /\ LET r == handle_drop(kstate, h)
       IN /\ kstate' = r.k
          /\ closes' = [closes EXCEPT ![h] = @ + r.calls]
          /\ hop' = HOp("drop", h, r)
    /\ holder' = [holder EXCEPT ![h] = "none"]

\* let raw = handle.into_raw_handle(): the caller holds the raw handle again,
\* unless the drop inside panicked
HandleIntoRaw(h) ==
    /\ HandleFrame
    /\ holder[h] = "Handle"
    /\ LET r == into_raw_handle(kstate, h)
       IN /\ kstate' = r.k
          /\ closes' = [closes EXCEPT ![h] = @ + r.calls]
          /\ hop' = HOp("into_raw_handle", h, r)
          /\ holder' = [holder EXCEPT ![h] = IF r.res = "Ok" THEN "raw" ELSE "none"]

HandleNext ==
    \E h \in Handles :
        \/ CreateHandle(h)
        \/ HandleNew(h)
        \/ HandleClose(h)
        \/ HandleDrop(h)
        \/ HandleIntoRaw(h)

HandleStart == ComInit /\ VsbIdle /\ SliceIdle /\ WinIdle

HandleSpec == HandleStart /\ [][HandleNext]_vars

\* ------------------------------------------------------------------------
\* Mutex (src/mutex.rs): an OS mutex, its guards, and abandonment
\* ------------------------------------------------------------------------

\* WaitForSingleObject(mutex, timeout) called by thread t: the return value
\* and the mutex afterwards. A free mutex is taken (WAIT_ABANDONED if its
\* last owner ended without releasing it), the owner re-enters, and a wait on
\* a mutex another thread owns runs into the timeout
WaitForSingleObject(mx, t) ==
    IF mx.owner = 0 /\ mx.abandoned
    THEN [ret |-> "WAIT_ABANDONED", mx |-> [owner |-> t, rec |-> 1, abandoned |-> FALSE]]
    ELSE IF mx.owner = 0
    THEN [ret |-> "WAIT_OBJECT_0", mx |-> [owner |-> t, rec |-> 1, abandoned |-> FALSE]]
    ELSE IF mx.owner = t
    THEN [ret |-> "WAIT_OBJECT_0", mx |-> [mx EXCEPT !.rec = @ + 1]]
    ELSE [ret |-> "WAIT_TIMEOUT", mx |-> mx]

\* ReleaseMutex called by thread t: one level of ownership is given up;
\* fails (0) if t does not own the mutex
ReleaseMutex(mx, t) ==
    IF mx.owner # t THEN [ret |-> 0, mx |-> mx]
    ELSE [ret |-> 1,
          mx  |-> IF mx.rec = 1 THEN [owner |-> 0, rec |-> 0, abandoned |-> FALSE]
                  ELSE [mx EXCEPT !.rec = @ - 1]]

\* Mutex::wait: the variant returned for each return value of the wait
mutex_wait(ret) ==
    CASE ret = "WAIT_ABANDONED" -> "Abandoned"
      [] ret = "WAIT_OBJECT_0"  -> "Ok"
      [] ret = "WAIT_TIMEOUT"   -> "Timeout"
      [] OTHER                  -> "Other"

\* impl Drop for MutexGuard: ReleaseMutex, panic if it answers 0
guard_drop(mx, t) ==
    LET r == ReleaseMutex(mx, t)
    IN [res |-> IF r.ret = 0 THEN "panic" ELSE "Ok", mx |-> r.mx, releases |-> 1]

\* AbandonedMutexGuard has no Drop impl: dropping it calls nothing
abandoned_guard_drop(mx, t) == [res |-> "Ok", mx |-> mx, releases |-> 0]

MOp(op, t, res, releases) ==
    [op |-> op, t |-> t, res |-> res, releases |-> releases,
     before |-> mutex, held |-> guards[t] + aguards[t]]

MutexFrame == UNCHANGED <<comVars, vsbVars, sliceVars, handleVars, apcVars>>

\* mutex.wait(timeout) on thread t; failed: the wait itself fails (WAIT_FAILED)
MutexWait(t, failed) ==
    /\ MutexFrame
    /\ alive[t]
    /\ guards[t] + aguards[t] < MaxHold
    /\ LET w == IF failed THEN [ret |-> "WAIT_FAILED", mx |-> mutex]
                ELSE WaitForSingleObject(mutex, t)
           v == mutex_wait(w.ret)
       IN /\ mutex' = w.mx
          /\ guards' = [guards EXCEPT ![t] = IF v = "Ok" THEN @ + 1 ELSE @]
          /\ aguards' = [aguards EXCEPT ![t] = IF v = "Abandoned" THEN @ + 1 ELSE @]
          /\ mop' = MOp("wait", t, v, 0)
    /\ UNCHANGED alive

\* a MutexGuard of thread t goes out of scope
DropGuard(t) ==
    /\ MutexFrame
    /\ alive[t]
    /\ guards[t] > 0
    /\ LET r == guard_drop(mutex, t)
       IN /\ mutex' = r.mx
          /\ mop' = MOp("drop_guard", t, r.res, r.releases)
    /\ guards' = [guards EXCEPT ![t] = @ - 1]
    /\ UNCHANGED <<alive, aguards>>

\* the Err(WaitError::Abandoned(guard)) a wait returned to thread t goes out
\* of scope
DropAbandoned(t) ==
    /\ MutexFrame
    /\ alive[t]
    /\ aguards[t] > 0
    /\ LET r == abandoned_guard_drop(mutex, t)
       IN /\ mutex' = r.mx
          /\ mop' = MOp("drop_abandoned", t, r.res, r.releases)
    /\ aguards' = [aguards EXCEPT ![t] = @ - 1]
    /\ UNCHANGED <<alive, guards>>

\* guard.unabandon(): the abandoned guard becomes a MutexGuard
Unabandon(t) ==
    /\ MutexFrame
    /\ alive[t]
    /\ aguards[t] > 0
    /\ aguards' = [aguards EXCEPT ![t] = @ - 1]
    /\ guards' = [guards EXCEPT ![t] = @ + 1]
    /\ mop' = MOp("unabandon", t, "Ok", 0)
    /\ UNCHANGED <<mutex, alive>>

\* thread t ends: normally, after all its guards were dropped, or killed with
\* guards in hand (no destructor runs); a mutex it still owns is abandoned
ThreadEnd(t, killed) ==
    /\ MutexFrame
    /\ alive[t]
    /\ killed \/ guards[t] + aguards[t] = 0
    /\ alive' = [alive EXCEPT ![t] = FALSE]
    /\ guards' = [guards EXCEPT ![t] = 0]
    /\ aguards' = [aguards EXCEPT ![t] = 0]
    /\ mutex' = IF mutex.owner = t THEN [owner |-> 0, rec |-> 0, abandoned |-> TRUE]
                ELSE mutex
    /\ mop' = MOp(IF killed THEN "killed" ELSE "exit", t, "Ok", 0)

MutexNext ==
    \E t \in Threads :
        \/ \E failed \in BOOLEAN : MutexWait(t, failed)
        \/ DropGuard(t)
        \/ DropAbandoned(t)
        \/ Unabandon(t)
        \/ \E killed \in BOOLEAN : ThreadEnd(t, killed)

MutexStart == ComInit /\ VsbIdle /\ SliceIdle /\ WinIdle

MutexSpec == MutexStart /\ [][MutexNext]_vars

\* ------------------------------------------------------------------------
\* apc (src/apc.rs): closures queued to a thread as asynchronous procedure calls
\* ------------------------------------------------------------------------

\* QueueUserAPC(helper, thread, thing): non-zero if the APC was queued; 0 if
\* the thread is gone or the call fails for another reason
QueueUserAPC(run, t, fails) == IF run[t] /\ ~fails THEN 1 ELSE 0

\* faulty variant of the match in queue / queue_current: the failure branch
\* forgets the box
apc_queue_leak(ret) == [res |-> IF ret = 0 THEN "Err" ELSE "Ok", frees |-> 0]

\* the match on QueueUserAPC's answer in queue and queue_current: 0 =>
\* Box::from_raw(thing) is dropped and Err(last_os_error()), _ => Ok(())
apc_queue(ret) ==
    IF ret = 0 THEN [res |-> "Err", frees |-> 1]
    ELSE [res |-> "Ok", frees |-> 0]

\* helper::<T>(thing): let func = Box::from_raw(thing); func() - the closure
\* runs once and its box is freed
helper(c) == [c EXCEPT !.runs = @ + 1, !.frees = @ + 1]

AOp(op, c, t, r) == [op |-> op, c |-> c, t |-> t, res |-> r.res, frees |-> r.frees]

ApcFrame == UNCHANGED <<comVars, vsbVars, sliceVars, handleVars, mutexVars>>

\* the body shared by queue and queue_current: the closure is boxed, the raw
\* pointer handed to QueueUserAPC, and freed again if that failed
QueueTo(op, c, t, fails) ==
    /\ ApcFrame
    /\ ~cl[c].boxed
    /\ LET ret == QueueUserAPC(running, t, fails)
           r == apc_queue(ret)
       IN /\ cl' = [cl EXCEPT ![c] = [boxed |-> TRUE, runs |-> 0, frees |-> r.frees]]
          /\ apcq' = [apcq EXCEPT ![t] = IF ret # 0 THEN Append(@, c) ELSE @]
          /\ aop' = AOp(op, c, t, r)
    /\ UNCHANGED running

\* apc::queue(func, thread), called from any running thread
Queue(c, t, fails) ==
    /\ \E cur \in Threads : running[cur]
    /\ QueueTo("queue", c, t, fails)

\* apc::queue_current(func) on thread cur: the target is GetCurrentThread()
QueueCurrent(c, cur, fails) ==
    /\ running[cur]
    /\ QueueTo("queue_current", c, cur, fails)

\* thread t enters an alertable wait: the kernel calls helper for the APC at
\* the head of its queue
Deliver(t) ==
    /\ ApcFrame
    /\ running[t]
    /\ apcq[t] # <<>>
    /\ LET c == Head(apcq[t])
       IN /\ cl' = [cl EXCEPT ![c] = helper(@)]
          /\ aop' = [op |-> "deliver", c |-> c, t |-> t, res |-> "Ok", frees |-> 0]
    /\ apcq' = [apcq EXCEPT ![t] = Tail(@)]
    /\ UNCHANGED running

\* thread t ends: the APCs still queued to it are discarded by the kernel,
\* their closures stay boxed
ApcThreadExit(t) ==
    /\ ApcFrame
    /\ running[t]
    /\ running' = [running EXCEPT ![t] = FALSE]
    /\ apcq' = [apcq EXCEPT ![t] = <<>>]
    /\ aop' = [op |-> "exit", c |-> 0, t |-> t, res |-> "Ok", frees |-> 0]
    /\ UNCHANGED cl

ApcNext ==
    \/ \E c \in Closures, t \in Threads, fails \in BOOLEAN : Queue(c, t, fails)
    \/ \E c \in Closures, cur \in Threads, fails \in BOOLEAN : QueueCurrent(c, cur, fails)
    \/ \E t \in Threads : Deliver(t)
    \/ \E t \in Threads : ApcThreadExit(t)

ApcStart == ComInit /\ VsbIdle /\ SliceIdle /\ WinIdle

ApcSpec == ApcStart /\ [][ApcNext]_vars

(***************************************************************************)
(* Properties of ComPtr                                                    *)
(***************************************************************************)
\* every reference the mock counts is held by someone: the outside parties
\* of the baseline, a live wrapper, or a raw pointer the caller owes
Accounted(o) == refcount[o] = baseline[o] + LiveOn(o) + owed[o]

AddRefs(cs) == SelectSeq(cs, LAMBDA c : c.fn = "AddRef")
Releases(cs) == SelectSeq(cs, LAMBDA c : c.fn = "Release")

\* C1: over from_raw / new, clone, into_raw and drop the wrapper code issues
\* AddRef only inside clone, exactly once, and Release only inside drop,
\* exactly once per dropped wrapper and none for a wrapper consumed by
\* into_raw; adoption issues no call, and once every wrapper has been dropped
\* (and no raw pointer still carries a reference) the mock's count is back at
\* the value it had before the run took any reference.
C1_CountingDiscipline ==
    /\ AddRefs(lastOp.calls) # <<>> => lastOp.op = "clone"
    /\ lastOp.op \in {"new", "from_raw", "into_raw"} => lastOp.calls = <<>>
    /\ lastOp.op = "clone" => lastOp.calls = <<Call("AddRef", lastOp.arg.ptr)>>
    /\ lastOp.op = "drop" => lastOp.calls = <<Call("Release", lastOp.arg.ptr)>>
    /\ Releases(lastOp.calls) # <<>> => lastOp.op \in {"drop", "from_fn", "com_ptr_from_fn"}
    /\ \A o \in Objs : LiveOn(o) = 0 /\ owed[o] = 0 => refcount[o] = baseline[o]

\* an adopted wrapper and its clones are all dropped, the last one just now
C1_Witness ==
    /\ lastOp.op = "drop"
    /\ TotalLive = 0 /\ TotalOwed = 0
    /\ refcount = baseline

\* C2: for a wrapper and its clones, dropped in any order, every drop lowers
\* the count by exactly one and every clone raises it by one (so a clone
\* dropped at once restores the count), Release is never served at count
\* zero, and the count is back at the value it had before the adopted
\* reference was taken only when no wrapper of the object is left.
C2_DropsAreIndependent ==
    /\ [](\A o \in Objs : /\ Accounted(o)
                          /\ refcount[o] = baseline[o] => LiveOn(o) = 0)
    /\ [](~underflow)
    /\ [][/\ lastOp'.op = "drop" =>
                refcount' = [refcount EXCEPT ![lastOp'.arg.ptr] = @ - 1]
          /\ lastOp'.op = "clone" =>
                refcount' = [refcount EXCEPT ![lastOp'.arg.ptr] = @ + 1]]_comVars

\* one of several wrappers of an object was just dropped; the others live on
C2_Witness ==
    /\ lastOp.op = "drop"
    /\ LiveOn(lastOp.arg.ptr) >= 2
    /\ refcount[lastOp.arg.ptr] = baseline[lastOp.arg.ptr] + 2

\* C3: from_fn whose function reports a status other than S_OK but has set
\* the output pointer returns Err and issues exactly one Release on that
\* object.
C3_FromFnReleasesStrayPointer ==
    (lastOp.op = "from_fn" /\ lastOp.arg # S_OK /\ lastOp.outs[1] # NULL) =>
        /\ lastOp.res = "Err"
        /\ lastOp.ret = <<>>
        /\ lastOp.calls = <<Call("Release", lastOp.outs[1])>>

\* the function failed with a negative status and still set the pointer
C3_Witness ==
    /\ lastOp.op = "from_fn" /\ lastOp.arg < 0 /\ lastOp.outs[1] # NULL
    /\ lastOp.res = "Err"

\* C4: cast, when QueryInterface reports failure, returns Err with exactly
\* the status QueryInterface returned, issues no AddRef and no Release, and
\* leaves the original wrapper alive and every count unchanged.
C4_CastFailure ==
    /\ []((lastOp.op = "cast" /\ lastOp.outs[2] < 0) =>
            /\ lastOp.res = "Err"
            /\ lastOp.status = lastOp.outs[2]
            /\ lastOp.ret = <<>>
            /\ lastOp.calls = <<Call("QueryInterface", lastOp.arg.ptr)>>
            /\ live[lastOp.arg] >= 1)
    /\ [][(lastOp'.op = "cast" /\ lastOp'.outs[2] < 0) =>
            /\ refcount' = refcount
            /\ live' = live
            /\ owed' = owed]_comVars

\* a cast to an interface the object does not support has just failed
C4_Witness ==
    /\ lastOp.op = "cast" /\ lastOp.res = "Err"
    /\ lastOp.outs[1] \notin Supports(lastOp.arg.ptr)
    /\ lastOp.status = -2

\* C5: cast::<T>() on a ComPtr<T> whose QueryInterface hands out the object
\* returns Ok with a new wrapper equal (raw-pointer identity) to the original;
\* the wrapper code issues no AddRef of its own, the new wrapper owns the one
\* reference QueryInterface made, and dropping a wrapper issues exactly one
\* Release, which leaves the references of the other wrappers counted.
C5_CastToSameType ==
    /\ (lastOp.op = "cast" /\ lastOp.outs[1] = lastOp.arg.iid
            /\ lastOp.outs[2] >= 0 /\ lastOp.outs[3] # NULL) =>
          /\ lastOp.res = "Ok"
          /\ Len(lastOp.ret) = 1
          /\ eq(lastOp.ret[1], lastOp.arg)
          /\ lastOp.ret[1].iid = lastOp.arg.iid
          /\ lastOp.calls = <<Call("QueryInterface", lastOp.arg.ptr)>>
          /\ live[lastOp.arg] >= 2
    /\ lastOp.op = "drop" => lastOp.calls = <<Call("Release", lastOp.arg.ptr)>>
    /\ \A o \in Objs : Accounted(o)

\* a ComPtr<IB> was just cast to IB with success
C5_Witness ==
    /\ lastOp.op = "cast" /\ lastOp.res = "Ok"
    /\ lastOp.arg.iid = "IB" /\ lastOp.outs[1] = "IB"
    /\ live[lastOp.arg] = 2
    /\ refcount[lastOp.arg.ptr] = baseline[lastOp.arg.ptr] + 2

\* C6: from_fn whose function returns S_OK and leaves the output pointer
\* null panics; it never returns Ok, nor a wrapper around a null pointer.
C6_FromFnNullOnSuccess ==
    /\ (lastOp.op = "from_fn" /\ lastOp.arg = S_OK /\ lastOp.outs[1] = NULL) =>
          lastOp.res = "panic" /\ lastOp.ret = <<>>
    /\ (lastOp.op = "from_fn" /\ lastOp.res = "Ok") =>
          Len(lastOp.ret) = 1 /\ lastOp.ret[1].ptr # NULL

C6_Witness ==
    lastOp.op = "from_fn" /\ lastOp.arg = S_OK /\ lastOp.outs[1] = NULL /\ lastOp.res = "panic"

\* C7: from_fn returns Ok only for status exactly S_OK; for every other
\* status, negative or positive, it returns Err with that status unchanged,
\* whether or not the output pointer was set.
C7_FromFnStatus ==
    lastOp.op = "from_fn" =>
        /\ lastOp.res = "Ok" => lastOp.arg = S_OK
        /\ lastOp.arg # S_OK => lastOp.res = "Err" /\ lastOp.status = lastOp.arg

\* a positive status with the pointer set is an error all the same
C7_Witness ==
    /\ lastOp.op = "from_fn" /\ lastOp.arg = 1 /\ lastOp.outs[1] # NULL
    /\ lastOp.res = "Err" /\ lastOp.status = 1

\* number of positions of s holding x
Occurrences(s, x) == Cardinality({k \in 1..Len(s) : s[k] = x})

\* C8: in every outcome of the two-pointer macro every output pointer the
\* initializer set is returned in the Ok tuple or released exactly once; an
\* initializer that made the first object and failed on the second gives Err
\* and one Release of the first; the Ok tuple has one ComPtr per pointer.
C8_MacroOwnsEveryPointer ==
    lastOp.op = "com_ptr_from_fn" =>
        /\ \A o \in Objs :
              Occurrences(lastOp.outs, o) =
                  Occurrences([k \in 1..Len(lastOp.ret) |-> lastOp.ret[k].ptr], o)
                  + CountCalls(lastOp.calls, "Release", o)
        /\ AddRefs(lastOp.calls) = <<>>
        /\ lastOp.res = "Ok" =>
              /\ Len(lastOp.ret) = Len(lastOp.outs)
              /\ \A k \in 1..Len(lastOp.outs) :
                    lastOp.ret[k].ptr = lastOp.outs[k] /\ lastOp.outs[k] # NULL
        /\ lastOp.res # "Ok" => lastOp.ret = <<>>
        /\ (lastOp.arg # S_OK /\ lastOp.outs[1] # NULL /\ lastOp.outs[2] = NULL) =>
              lastOp.res = "Err" /\ lastOp.calls = <<Call("Release", lastOp.outs[1])>>
        /\ \A o \in Objs : Accounted(o)

\* the initializer made the first object and failed on the second
C8_Witness ==
    /\ lastOp.op = "com_ptr_from_fn" /\ lastOp.arg < 0
    /\ lastOp.outs[1] # NULL /\ lastOp.outs[2] = NULL
    /\ lastOp.res = "Err"

\* C9: from_raw with a null pointer panics, making no wrapper and no call;
\* with a non-null pointer it gives a wrapper holding exactly that pointer.
C9_FromRaw ==
    lastOp.op = "from_raw" =>
        /\ lastOp.calls = <<>>
        /\ IF lastOp.arg = NULL
           THEN lastOp.res = "panic" /\ lastOp.ret = <<>>
           ELSE lastOp.res = "Ok" /\ Len(lastOp.ret) = 1 /\ lastOp.ret[1].ptr = lastOp.arg

C9_Witness ==
    lastOp.op = "from_raw" /\ lastOp.arg = NULL /\ lastOp.res = "panic"

\* C10: new returns None, with no panic and no call, exactly when the pointer
\* is null; otherwise Some wrapper holding exactly that pointer.
C10_New ==
    lastOp.op = "new" =>
        /\ lastOp.calls = <<>>
        /\ lastOp.res \in {"None", "Some"}
        /\ lastOp.res = "None" <=> lastOp.arg = NULL
        /\ lastOp.res = "None" => lastOp.ret = <<>>
        /\ lastOp.res = "Some" => Len(lastOp.ret) = 1 /\ lastOp.ret[1].ptr = lastOp.arg

C10_Witness ==
    lastOp.op = "new" /\ lastOp.arg = NULL /\ lastOp.res = "None"

\* C11: into_raw returns the wrapped pointer and issues no Release for the
\* consumed wrapper; the reference then rides on the raw pointer, from_raw
\* takes it back without a call, so from_raw(into_raw(p)) leaves the count
\* unchanged, and the re-adopted wrapper's drop is the one Release in total.
C11_IntoRawRoundTrip ==
    /\ [](lastOp.op = "into_raw" =>
            /\ lastOp.calls = <<>>
            /\ lastOp.outs = <<lastOp.arg.ptr>>
            /\ owed[lastOp.arg.ptr] >= 1)
    /\ [](lastOp.op = "drop" => lastOp.calls = <<Call("Release", lastOp.arg.ptr)>>)
    /\ [](\A o \in Objs : Accounted(o))
    /\ [][/\ lastOp'.op = "into_raw" =>
                /\ refcount' = refcount
                /\ live' = [live EXCEPT ![lastOp'.arg] = @ - 1]
                /\ owed' = [owed EXCEPT ![lastOp'.arg.ptr] = @ + 1]
          /\ (lastOp'.op = "from_raw" /\ lastOp'.res = "Ok") =>
                /\ refcount' = refcount
                /\ live' = [live EXCEPT ![lastOp'.ret[1]] = @ + 1]
                /\ owed' = [owed EXCEPT ![lastOp'.arg] = @ - 1]]_comVars

\* the only wrapper of an object was just turned into a raw pointer: the
\* object is kept alive by the reference the caller now owes
C11_Witness ==
    /\ lastOp.op = "into_raw"
    /\ LiveOn(lastOp.arg.ptr) = 0
    /\ owed[lastOp.arg.ptr] = 1
    /\ refcount[lastOp.arg.ptr] = baseline[lastOp.arg.ptr] + 1

\* C12: up consumes the wrapper and returns a wrapper of the parent
\* interface holding the same address, issues no AddRef and no Release,
\* never fails, and the one reference is released by the drop of the result.
C12_UpKeepsTheReference ==
    /\ [](lastOp.op = "up" =>
            /\ lastOp.res = "Ok"
            /\ lastOp.calls = <<>>
            /\ Len(lastOp.ret) = 1
            /\ lastOp.ret[1].ptr = lastOp.arg.ptr
            /\ lastOp.ret[1].iid = Parent(lastOp.arg.iid)
            /\ live[lastOp.ret[1]] >= 1)
    /\ [](lastOp.op = "drop" => Releases(lastOp.calls) = <<Call("Release", lastOp.arg.ptr)>>)
    /\ [](\A o \in Objs : Accounted(o))
    /\ [][lastOp'.op = "up" =>
            /\ refcount' = refcount
            /\ owed' = owed
            /\ live' = [live EXCEPT ![lastOp'.arg] = @ - 1, ![lastOp'.ret[1]] = @ + 1]]_comVars

\* a ComPtr<IB> was just cast up to ComPtr<IUnknown>, the only wrapper of
\* its object
C12_Witness ==
    /\ lastOp.op = "up" /\ lastOp.arg.iid = "IB"
    /\ live[lastOp.arg] = 0
    /\ LiveOn(lastOp.arg.ptr) = 1
    /\ refcount[lastOp.arg.ptr] = baseline[lastOp.arg.ptr] + 1 + owed[lastOp.arg.ptr]

(***************************************************************************)
(* Properties of VariableSizedBox                                          *)
(***************************************************************************)
\* C13: after every completed new or resize, len() is the size just asked
\* for, and no other step changes it; as_ptr()/as_mut_ptr() are null exactly
\* when len() is 0, and otherwise the base address of the live allocation.
C13_LenAndPointer ==
    /\ [](vpc = "live" =>
            /\ (as_ptr(vbox) = NULL) <=> (len(vbox) = 0)
            /\ len(vbox) > 0 =>
                 \E b \in heap : b.base = as_ptr(vbox) /\ b.size = len(vbox))
    /\ [][IF vop'.op \in {"new", "resize"} /\ vop'.res = "Ok"
          THEN len(vbox') = vop'.arg
          ELSE vpc' = "live" => len(vbox') = len(vbox)]_vsbVars

\* a non-empty box was just resized to 0 and reports a null pointer
C13_Witness ==
    /\ vpc = "live"
    /\ vop.op = "resize" /\ vop.arg = 0 /\ vop.res = "Ok"
    /\ vop.old.size > 0
    /\ len(vbox) = 0 /\ as_ptr(vbox) = NULL

\* C14: the box owns exactly one live allocation when len() > 0 and none
\* when len() = 0, of len() bytes; every block is given back to the allocator
\* once, described by its own byte length and T's alignment; nothing is freed
\* twice or touched after being freed; dropping an empty box frees nothing.
C14_OneBlockFreedOnce ==
    /\ vpc = "live" /\ len(vbox) > 0 =>
         heap = {b \in heap : b.base = as_ptr(vbox) /\ b.size = len(vbox)
                              /\ b.align = AlignOfT} /\ Cardinality(heap) = 1
    /\ (vpc \in {"none", "dropped"} \/ (vpc = "live" /\ len(vbox) = 0)) => heap = {}
    /\ faults = {}
    /\ \A k \in 1 .. Len(vop.calls) :
         vop.calls[k].fn \in {"dealloc", "realloc"} =>
            /\ vop.calls[k].size = vop.calls[k].real
            /\ vop.calls[k].align = AlignOfT
    /\ (vop.op = "drop" /\ vop.old.size = 0) => vop.calls = <<>>

\* C15: a resize between two non-zero sizes leaves the first min(old, new)
\* bytes of the contents as they were, growing or shrinking, relocated or not.
C15_ResizeKeepsPrefix ==
    (vop.op = "resize" /\ vop.res = "Ok" /\ vop.old.size > 0 /\ vop.arg > 0) =>
        /\ Len(Contents(heap, vbox)) = vop.arg
        /\ \A i \in 1 .. Min(vop.old.size, vop.arg) :
              Contents(heap, vbox)[i] = vop.oldBytes[i]

\* a box holding non-zero bytes was just shrunk and its memory moved
C15_Witness ==
    /\ vop.op = "resize" /\ vop.res = "Ok"
    /\ vop.arg > 0 /\ vop.arg < vop.old.size
    /\ vbox.data # vop.old.data
    /\ \A i \in 1 .. vop.arg : vop.oldBytes[i] = 1

\* C16: new(n) with n > 0 yields a box of len() n whose n bytes are all zero.
C16_NewIsZeroed ==
    (vop.op = "new" /\ vop.res = "Ok" /\ vop.arg > 0) =>
        /\ len(vbox) = vop.arg
        /\ Contents(heap, vbox) = Zeros(vop.arg)

\* a box of the largest ordinary size was just created
C16_Witness ==
    /\ vop.op = "new" /\ vop.res = "Ok" /\ vop.arg = MaxLen
    /\ vpc = "live" /\ len(vbox) = MaxLen

\* C17: when resize grows the allocation, from zero or from a non-zero size,
\* every byte at an offset at or beyond the old length is zero afterwards.
C17_GrowthIsZeroed ==
    (vop.op = "resize" /\ vop.res = "Ok" /\ vop.arg > vop.old.size) =>
        /\ Len(Contents(heap, vbox)) = vop.arg
        /\ \A i \in vop.old.size + 1 .. vop.arg : Contents(heap, vbox)[i] = 0

\* a box whose bytes were all non-zero was just grown
C17_Witness ==
    /\ vop.op = "resize" /\ vop.res = "Ok"
    /\ vop.old.size > 0 /\ vop.arg > vop.old.size
    /\ \A i \in 1 .. vop.old.size : vop.oldBytes[i] = 1
    /\ Contents(heap, vbox)[1] = 1

(***************************************************************************)
(* Properties of the slice accessors                                       *)
(***************************************************************************)
\* C18: for a pointer k bytes past as_ptr() and a count with
\* k + count * size_of::<U>() = len(), slice_from_count and
\* try_slice_from_count return a slice of exactly count elements starting at
\* offset k and ending at the end of the allocation; with one element more
\* the panicking form panics and the try form returns None.
C18_TailSlice ==
    acc.op \in {"slice_from_count", "try_slice_from_count"} =>
        /\ (acc.ptr >= as_ptr(vbox)
              /\ (acc.ptr - as_ptr(vbox)) + acc.n * acc.sz = len(vbox)) =>
             /\ acc.r.res = "Some"
             /\ acc.r.start = acc.ptr
             /\ acc.r.count = acc.n
             /\ acc.r.start + acc.r.count * acc.r.sz = as_ptr(vbox) + len(vbox)
        /\ (acc.n >= 1 /\ acc.ptr >= as_ptr(vbox)
              /\ (acc.ptr - as_ptr(vbox)) + (acc.n - 1) * acc.sz = len(vbox)) =>
             acc.r.res = IF acc.op = "try_slice_from_count" THEN "None" ELSE "panic"

\* C19: every slice returned by any accessor (count, bytes and total-bytes
\* forms, shared and mutable, panicking and try) covers only bytes inside
\* [base, base + len()) of the box's allocation.
C19_SliceInsideAllocation ==
    (acc.op # "none" /\ acc.r.res = "Some") =>
        /\ as_ptr(vbox) # NULL
        /\ \E b \in heap : b.base = as_ptr(vbox) /\ b.size = len(vbox)
        /\ acc.r.start >= as_ptr(vbox)
        /\ acc.r.start + acc.r.count * acc.r.sz <= as_ptr(vbox) + len(vbox)

\* slice_from_total_bytes_mut returned a slice of 2-byte elements that starts
\* inside the allocation, past its base
C19_Witness ==
    /\ acc.op = "slice_from_total_bytes_mut"
    /\ acc.r.res = "Some"
    /\ acc.r.sz = 2 /\ acc.r.count >= 1
    /\ acc.r.start > as_ptr(vbox)

\* C20: try_slice_from_count and try_slice_from_count_mut never panic: when
\* count * size_of::<U>() overflows usize or the range does not fit in the
\* allocation they return None.
C20_TryNeverPanics ==
    acc.op \in {"try_slice_from_count", "try_slice_from_count_mut"} =>
        /\ acc.r.res # "panic"
        /\ (\/ acc.n * acc.sz > UsizeMax
            \/ acc.ptr < as_ptr(vbox)
            \/ acc.ptr + acc.n * acc.sz > as_ptr(vbox) + len(vbox)) => acc.r.res = "None"

\* C21: try_slice_from_count returns Some only for a pointer inside
\* [base, base + len()): one past the end with count 0, and any pointer and
\* count on the empty box, give None, and no slice is ever built from a null
\* or out-of-range pointer.
C21_SomeOnlyInsideHalfOpenRange ==
    acc.op = "try_slice_from_count" =>
        /\ acc.r.res = "Some" =>
             (acc.ptr >= as_ptr(vbox) /\ acc.ptr < as_ptr(vbox) + len(vbox))
        /\ (len(vbox) = 0 \/ acc.ptr = as_ptr(vbox) + len(vbox)) => acc.r.res = "None"
        /\ ~acc.r.ub

\* floor(bytes / size_of::<U>()), by repeated subtraction
RECURSIVE FloorDiv(_, _)
FloorDiv(bytes, sz) == IF bytes < sz THEN 0 ELSE 1 + FloorDiv(bytes - sz, sz)

\* C22: try_slice_from_total_bytes and try_slice_from_total_bytes_mut never
\* panic and return None whenever the slice described is not entirely within
\* the allocation: total_bytes below the byte offset of ptr, ptr before the
\* base, or total_bytes above len().
C22_TotalBytesOutOfRangeIsNone ==
    acc.op \in {"try_slice_from_total_bytes", "try_slice_from_total_bytes_mut"} =>
        ((\/ acc.ptr < as_ptr(vbox)
          \/ acc.n < acc.ptr - as_ptr(vbox)
          \/ acc.n > len(vbox)
          \/ acc.ptr + FloorDiv(acc.n - (acc.ptr - as_ptr(vbox)), acc.sz) * acc.sz
                > as_ptr(vbox) + len(vbox)) => acc.r.res = "None")

\* t - (ptr - base) as the build computes it on usize: each subtraction that
\* would go below zero panics with overflow checks and wraps without them;
\* -1 stands for the panic
TotalMinusOffset(t, ptr, base, chk) ==
    IF ptr < base
    THEN IF chk THEN -1
         ELSE LET off == ptr - base + 2^UsizeBits
              IN IF t < off THEN t - off + 2^UsizeBits ELSE t - off
    ELSE IF t < ptr - base
         THEN IF chk THEN -1 ELSE t - (ptr - base) + 2^UsizeBits
         ELSE t - (ptr - base)

\* the form one step down the delegation chain, and the argument it is given
Delegate(f) ==
    CASE f = "try_slice_from_bytes" -> "try_slice_from_count"
      [] f = "slice_from_bytes" -> "slice_from_count"
      [] f = "try_slice_from_bytes_mut" -> "try_slice_from_count_mut"
      [] f = "slice_from_bytes_mut" -> "slice_from_count_mut"
      [] f = "try_slice_from_total_bytes" -> "try_slice_from_bytes"
      [] f = "slice_from_total_bytes" -> "slice_from_bytes"
      [] f = "try_slice_from_total_bytes_mut" -> "try_slice_from_bytes_mut"
      [] f = "slice_from_total_bytes_mut" -> "slice_from_bytes_mut"

\* C26: a bytes form gives exactly the outcomes of its count form applied to
\* floor(bytes / size_of::<U>()), and a total-bytes form those of its bytes
\* form applied to total_bytes - (ptr - base) (a panic where that subtraction
\* panics), so a returned slice never includes a trailing partial element.
C26_FormsAgreeWithCountForm ==
    /\ acc.op \in BytesForms =>
         /\ Accessor(acc.op, vbox, acc.ptr, acc.n, acc.sz, checks) =
              Accessor(Delegate(acc.op), vbox, acc.ptr, FloorDiv(acc.n, acc.sz), acc.sz, checks)
         /\ acc.r \in Accessor(Delegate(acc.op), vbox, acc.ptr, FloorDiv(acc.n, acc.sz),
                               acc.sz, checks)
         /\ acc.r.res = "Some" => acc.r.count * acc.r.sz <= acc.n
    /\ acc.op \in TotalBytesForms =>
         LET b == TotalMinusOffset(acc.n, acc.ptr, as_ptr(vbox), checks)
             expected == IF b = -1 THEN {NoSlice("panic")}
                         ELSE Accessor(Delegate(acc.op), vbox, acc.ptr, b, acc.sz, checks)
         IN /\ Accessor(acc.op, vbox, acc.ptr, acc.n, acc.sz, checks) = expected
            /\ acc.r \in expected
            /\ acc.r.res = "Some" =>
                 /\ acc.r.count = FloorDiv(acc.n - (acc.ptr - as_ptr(vbox)), acc.sz)
                 /\ acc.r.start + acc.r.count * acc.r.sz <= as_ptr(vbox) + acc.n

\* slice_from_total_bytes returned a slice of 2-byte elements from a total
\* that leaves an odd number of bytes after the pointer
C26_Witness ==
    /\ acc.op = "slice_from_total_bytes"
    /\ acc.sz = 2 /\ acc.r.res = "Some" /\ acc.r.count = 1
    /\ acc.n - (acc.ptr - as_ptr(vbox)) = 3

\* C27: every realloc call resize makes describes the existing block by the
\* byte length it has before the resize and T's alignment, the layout the
\* block was allocated with.
C27_ReallocDescribesOldBlock ==
    vop.op = "resize" =>
        \A k \in 1 .. Len(vop.calls) :
            vop.calls[k].fn = "realloc" =>
                /\ vop.calls[k].size = vop.old.size
                /\ vop.calls[k].size = vop.calls[k].real
                /\ vop.calls[k].align = AlignOfT

\* C23: slice_from_count_mut and slice_from_count of the same pointer and
\* count view the same bytes: on a freshly zeroed box the shared slice reads
\* all zeros; after values are written through the mutable slice the shared
\* slice reads back exactly those values; the bytes of the allocation outside
\* the slice are unchanged by the write.
C23_SharedSliceSeesWrites ==
    /\ (vop.op = "slice_write" /\ vop.res = "Some") =>
         \A i \in 1 .. len(vbox) :
            (i <= vop.arg.ptr - as_ptr(vbox)
               \/ i > vop.arg.ptr - as_ptr(vbox) + vop.arg.count * vop.arg.sz) =>
                 Contents(heap, vbox)[i] = vop.oldBytes[i]
    /\ (acc.op = "slice_from_count" /\ vop.op = "slice_write") =>
         (vop.res = "Some" =>
              /\ acc.r.res = "Some"
              /\ acc.r.start = vop.arg.ptr /\ acc.r.count = vop.arg.count
              /\ acc.view = vop.arg.vals)
    /\ (acc.op = "slice_from_count" /\ vop.op = "new" /\ acc.r.res = "Some") =>
         acc.view = [k \in 1 .. acc.n |-> 0]

\* two 1-byte elements, not both equal, were written through the mutable
\* slice into the middle of a box and then read through the shared slice
C23_Witness ==
    /\ vop.op = "slice_write" /\ vop.res = "Some"
    /\ vop.arg.count = 2 /\ vop.arg.vals[1] # vop.arg.vals[2]
    /\ vop.arg.ptr > as_ptr(vbox)
    /\ acc.op = "slice_from_count" /\ acc.view = vop.arg.vals

\* C24: with len() >= size_of::<T>(), a header written through as_mut_ref()
\* is read back identically through as_ref(), and a resize between sizes that
\* are both >= size_of::<T>() leaves the header as_ref() shows unchanged.
C24_HeaderRoundTrip ==
    /\ []((vop.op = "as_mut_ref" /\ vop.res = "Ok") =>
            /\ len(vbox) >= SizeOfT
            /\ HeaderRead(heap, vbox) = vop.arg)
    /\ []((vop.op = "as_ref" /\ vop.res = "Ok") => vop.arg = HeaderRead(heap, vbox))
    /\ [][(vop'.op = "resize" /\ vop'.res = "Ok"
             /\ len(vbox) >= SizeOfT /\ len(vbox') >= SizeOfT) =>
                HeaderRead(heap', vbox') = HeaderRead(heap, vbox)]_vsbVars

\* a box holding a non-zero header was just resized, its memory moved, and
\* still shows the header
C24_Witness ==
    /\ vop.op = "resize" /\ vop.res = "Ok"
    /\ vop.old.size >= SizeOfT /\ len(vbox) >= SizeOfT
    /\ vbox.data # vop.old.data
    /\ \A i \in 1 .. SizeOfT : vop.oldBytes[i] = 1
    /\ HeaderRead(heap, vbox) = [i \in 1 .. SizeOfT |-> 1]

\* C25: as_ref and as_mut_ref panic, before touching memory, whenever
\* len() < size_of::<T>() (the empty box included), and return a header
\* reference only when len() >= size_of::<T>().
C25_HeaderNeedsRoom ==
    vop.op \in {"as_ref", "as_mut_ref"} =>
        /\ vop.old = vbox
        /\ len(vbox) < SizeOfT =>
             /\ vop.res = "panic"
             /\ vop.calls = <<>>
             /\ Contents(heap, vbox) = vop.oldBytes
        /\ vop.res = "Ok" =>
             /\ len(vbox) >= SizeOfT
             /\ vop.calls = <<Deref(heap, as_ptr(vbox), SizeOfT)>>
             /\ vop.calls[1].real >= SizeOfT

\* as_mut_ref was just refused on a non-empty box shorter than the header
C25_Witness ==
    /\ vop.op = "as_mut_ref" /\ vop.res = "panic"
    /\ len(vbox) > 0 /\ len(vbox) < SizeOfT

\* C28: every kernel handle owned by a Handle is closed at most once over any
\* sequence of new, into_raw_handle, close and drop: close results in exactly
\* one CloseHandle call on the handle in total, and into_raw_handle hands the
\* handle back still open, with no CloseHandle issued for it by the wrapper.
C28_HandleClosedAtMostOnce ==
    /\ \A h \in Handles : closes[h] <= 1
    /\ hop.op = "close" => (hop.calls = 1 /\ closes[hop.h] = 1 /\ hop.res = "Ok")
    /\ hop.op = "into_raw_handle" =>
         (hop.calls = 0 /\ closes[hop.h] = 0 /\ kstate[hop.h] = "open")

\* C29: whenever Mutex::wait returns having acquired ownership of the OS
\* mutex, as Ok(MutexGuard) on WAIT_OBJECT_0 or as
\* Err(WaitError::Abandoned(guard)) on WAIT_ABANDONED, dropping the returned
\* value releases the mutex exactly once (one ReleaseMutex call, one level of
\* ownership given up); on Timeout or Other no ownership is taken and no
\* release is issued.
C29_DropReleasesOnce ==
    /\ (mop.op = "wait" /\ mop.res \in {"Ok", "Abandoned"}) =>
         (mutex.owner = mop.t /\ guards[mop.t] + aguards[mop.t] = mop.held + 1)
    /\ (mop.op = "wait" /\ mop.res \in {"Timeout", "Other"}) =>
         (mutex = mop.before /\ mop.releases = 0
            /\ guards[mop.t] + aguards[mop.t] = mop.held)
    /\ mop.op \in {"drop_guard", "drop_abandoned"} =>
         /\ mop.res = "Ok"
         /\ mop.releases = 1
         /\ mop.before.owner = mop.t
         /\ mutex = ReleaseMutex(mop.before, mop.t).mx

\* how often closure c stands in the APC queues
Pending(c) ==
    Cardinality({<<t, i>> \in Threads \X (1 .. MaxClosures) :
                    i <= Len(apcq[t]) /\ apcq[t][i] = c})

\* C30: for apc::queue and apc::queue_current the boxed closure is run at most
\* once and freed exactly once in each outcome, never twice: if QueueUserAPC
\* fails the closure is freed by the caller without being run and Err is
\* returned; if it succeeds the caller does not free it, it stays boxed while
\* the APC is pending, and it is run and freed, once each, only when the APC
\* is delivered to the target thread.
C30_ClosureRunAndFreedOnce ==
    /\ \A c \in Closures :
         /\ cl[c].runs <= 1 /\ cl[c].frees <= 1
         /\ cl[c].runs = 1 => cl[c].frees = 1
         /\ Pending(c) <= 1
         /\ Pending(c) = 1 => (cl[c].boxed /\ cl[c].runs = 0 /\ cl[c].frees = 0)
    /\ (aop.op \in {"queue", "queue_current"} /\ aop.res = "Err") =>
         /\ aop.frees = 1
         /\ cl[aop.c] = [boxed |-> TRUE, runs |-> 0, frees |-> 1]
         /\ Pending(aop.c) = 0
    /\ (aop.op \in {"queue", "queue_current"} /\ aop.res = "Ok") =>
         /\ aop.frees = 0
         /\ cl[aop.c] = [boxed |-> TRUE, runs |-> 0, frees |-> 0]
         /\ Pending(aop.c) = 1
         /\ apcq[aop.t][Len(apcq[aop.t])] = aop.c
    /\ aop.op = "deliver" =>
         /\ cl[aop.c] = [boxed |-> TRUE, runs |-> 1, frees |-> 1]
         /\ Pending(aop.c) = 0

\* one closure was refused by QueueUserAPC and freed by the caller, another
\* was queued and has just been delivered
C30_Witness ==
    /\ aop.op = "deliver"
    /\ cl[aop.c].runs = 1 /\ cl[aop.c].frees = 1
    /\ \E c \in Closures : c # aop.c /\ cl[c] = [boxed |-> TRUE, runs |-> 0, frees |-> 1]
=============================================================================
